---- MODULE Spec2Model ----
(***************************************************************************)
(* Model of the i2csens driver (src/i2csensdrv.c): the probe handshake,    *)
(* the sysfs attributes enable / data, and the register map they use.      *)
(***************************************************************************)
EXTENDS Integers, Sequences, FiniteSets, TLC

(* ------------------------------------------------------------------ *)
(* Program constants                                                   *)
(* ------------------------------------------------------------------ *)
I2CSENS_REG_ID == 0

I2CSENS_REG_CTRL_Two == 1 + 1

I2CSENS_REG_CTRL == 1
I2CSENS_REG_DATA == 2
CTRL_EN_MASK == 1
I2CSENS_ID == 90

val_bits_Narrow == 8 - 1

val_bits == 8

max_register_OneMore == I2CSENS_REG_DATA + 1

max_register == I2CSENS_REG_DATA

\* unsigned int is 32 bits wide; the model keeps it as two halves of HalfWidth
HalfWidth == 16

(* ------------------------------------------------------------------ *)
(* Bounds of the model                                                 *)
(* ------------------------------------------------------------------ *)
MaxAddr == 5

NThreads == 2

(* ------------------------------------------------------------------ *)
(* Value sets the inputs are drawn from                                *)
(* ------------------------------------------------------------------ *)
Pow2(n) == 2 ^ n

HalfMod == Pow2(HalfWidth)

Bytes == 0 .. (Pow2(val_bits) - 1)

Registers == 0 .. max_register

Addresses == 0 .. MaxAddr

Threads == 1 .. NThreads

IdSamples == {I2CSENS_ID, 0, I2CSENS_ID + 1, 74}

CtrlSamples == {0, 254}

DataSamples == {1, 100, 255}

WriteSamples == {0, 1, 254, 255}

\* an unsigned int, kept as its two 16-bit halves
U32(hi, lo) == [hi |-> hi, lo |-> lo]

FromNat(n) == U32((n \div HalfMod) % HalfMod, n % HalfMod)

\* what an unsigned int that was never assigned may hold
UninitUInt == {FromNat(6), FromNat(257), U32(HalfMod - 1, HalfMod - 1)}

\* what an int that was never assigned may hold
UninitInt == {-1, 0}

\* texts handed to concurrent enable_store calls
ConcInputs == { <<"0">>, <<"1", "\n">>, <<"a">> }

\* texts handed to enable_store, one character per element
StoreInputs ==
  { <<"0">>, <<"1", "\n">>, <<"2">>, <<"-", "1">>, <<"a">>, <<>> }

OK == "OK"
BusError == "BusError"
OutOfRange == "OutOfRange"
NotWritable == "NotWritable"
ENODEV == "ENODEV"
ENOMEM == "ENOMEM"
EINVAL == "EINVAL"

RegmapInitErrs == {ENOMEM, EINVAL}

(* ------------------------------------------------------------------ *)
(* Integer helpers: C operators on unsigned int                        *)
(* ------------------------------------------------------------------ *)
RECURSIVE BitAnd(_, _)
BitAnd(a, b) ==
  IF a = 0 \/ b = 0 THEN 0
  ELSE (a % 2) * (b % 2) + 2 * BitAnd(a \div 2, b \div 2)

BitOr(a, b) == a + b - BitAnd(a, b)

UAnd(a, b) == U32(BitAnd(a.hi, b.hi), BitAnd(a.lo, b.lo))

UOr(a, b) == U32(BitOr(a.hi, b.hi), BitOr(a.lo, b.lo))

UNot(a) == U32((HalfMod - 1) - a.hi, (HalfMod - 1) - a.lo)

UIsZero(a) == a.hi = 0 /\ a.lo = 0

\* a * k on unsigned int (wraps at 2^32), for k < 2^(HalfWidth - 1)
UMul(a, k) ==
  LET p == a.lo * k
  IN  U32((a.hi * k + p \div HalfMod) % HalfMod, p % HalfMod)

\* a >> 1 on unsigned int
UShr1(a) == U32(a.hi \div 2, (a.hi % 2) * (HalfMod \div 2) + a.lo \div 2)

\* the int a "%d" conversion prints for an unsigned int argument
UToInt(a) ==
  IF a.hi >= HalfMod \div 2
  THEN (a.hi - HalfMod) * HalfMod + a.lo
  ELSE a.hi * HalfMod + a.lo

(* ------------------------------------------------------------------ *)
(* Text helpers: sprintf("%d\n") and sscanf("%d")                      *)
(* ------------------------------------------------------------------ *)
DigitChars == <<"0", "1", "2", "3", "4", "5", "6", "7", "8", "9">>

IsDigit(c) == \E d \in 1 .. 10 : DigitChars[d] = c

DigitVal(c) == (CHOOSE d \in 1 .. 10 : DigitChars[d] = c) - 1

IsSpace(c) == c \in {" ", "\n", "\t"}

RECURSIVE Digits(_)
Digits(n) ==
  IF n < 10 THEN <<DigitChars[n + 1]>>
  ELSE Digits(n \div 10) \o <<DigitChars[(n % 10) + 1]>>

\* sprintf(buf, "%d\n", n): the characters written
sprintf_d(n) ==
  (IF n < 0 THEN <<"-">> \o Digits(0 - n) ELSE Digits(n)) \o <<"\n">>

RECURSIVE SkipSpace(_)
SkipSpace(s) ==
  IF s # <<>> /\ IsSpace(Head(s)) THEN SkipSpace(Tail(s)) ELSE s

RECURSIVE ScanDigits(_, _, _)
ScanDigits(s, acc, seen) ==
  IF s # <<>> /\ IsDigit(Head(s))
  THEN ScanDigits(Tail(s), acc * 10 + DigitVal(Head(s)), TRUE)
  ELSE [val |-> acc, seen |-> seen]

\* sscanf(buf, "%d", &x): n = number of conversions, val = value stored
sscanf_d(buf) ==
  LET s0 == SkipSpace(buf)
      neg == s0 # <<>> /\ Head(s0) = "-"
      sgn == s0 # <<>> /\ Head(s0) \in {"-", "+"}
      s1 == IF sgn THEN Tail(s0) ELSE s0
      d == ScanDigits(s1, 0, FALSE)
  IN  IF d.seen
      THEN [n |-> 1, val |-> IF neg THEN 0 - d.val ELSE d.val]
      ELSE [n |-> 0, val |-> 0]

(* ------------------------------------------------------------------ *)
(* State                                                               *)
(* ------------------------------------------------------------------ *)
VARIABLES regs, state, sysfs, bind, last, thr

vars == <<regs, state, sysfs, bind, last, thr>>

Ret(e, n) == [err |-> e, n |-> n]

\* what a call remembers of the call right before it
NoPrev == [op |-> "none", ok |-> FALSE, conv |-> 0, val |-> 0, ctrl |-> 0]

NoCall ==
  [op |-> "none", arg |-> <<>>, addr |-> 0, val |-> 0, ret |-> Ret(OK, 0),
   buf |-> <<>>, xfers |-> <<>>, pre |-> <<>>, conv |-> 0, bus |-> <<>>,
   prev |-> NoPrev]

NoBind == [done |-> FALSE, ret |-> Ret(OK, 0), xfers |-> <<>>, group |-> "none"]

Xfer(reg, wr, val, ok) == [reg |-> reg, wr |-> wr, val |-> val, ok |-> ok]

(* ------------------------------------------------------------------ *)
(* Register map (i2csens_regmap_config)                                *)
(* ------------------------------------------------------------------ *)
i2csens_regmap_is_writeable_DataToo(reg) == reg # I2CSENS_REG_ID

i2csens_regmap_is_writeable(reg) == reg = I2CSENS_REG_CTRL

\* read(address): range check, then one bus transaction; nothing is cached
regmap_read(r, reg, busok) ==
  IF reg > max_register
  THEN [err |-> OutOfRange, val |-> 0, xfers |-> <<>>]
  ELSE IF ~busok
  THEN [err |-> BusError, val |-> 0,
        xfers |-> <<Xfer(reg, FALSE, 0, FALSE)>>]
  ELSE [err |-> OK, val |-> r[reg],
        xfers |-> <<Xfer(reg, FALSE, r[reg], TRUE)>>]

\* write(address, value): range check, writability check, then one bus
\* transaction carrying the low val_bits of the value
regmap_write(r, reg, val, busok) ==
  LET v == val.lo % Pow2(val_bits)
  IN  IF reg > max_register
      THEN [err |-> OutOfRange, regs |-> r, xfers |-> <<>>]
      ELSE IF ~i2csens_regmap_is_writeable(reg)
      THEN [err |-> NotWritable, regs |-> r, xfers |-> <<>>]
      ELSE IF ~busok
      THEN [err |-> BusError, regs |-> r,
            xfers |-> <<Xfer(reg, TRUE, v, FALSE)>>]
      ELSE [err |-> OK, regs |-> [r EXCEPT ![reg] = v],
            xfers |-> <<Xfer(reg, TRUE, v, TRUE)>>]

(* ------------------------------------------------------------------ *)
(* sysfs attributes                                                    *)
(* ------------------------------------------------------------------ *)
enable_show_result_Stale(r, busok, uninit) ==
  LET rd == regmap_read(r, I2CSENS_REG_CTRL, busok)
      enable == UAnd(uninit, FromNat(CTRL_EN_MASK))
      buf == sprintf_d(IF ~UIsZero(enable) THEN 1 ELSE 0)
  IN  [ret |-> Ret(OK, Len(buf)), buf |-> buf, xfers |-> rd.xfers]

\* enable_show: err is never looked at; enable is only assigned by a
\* successful read, otherwise it keeps what the stack held (uninit)
enable_show_result(r, busok, uninit) ==
  LET rd == regmap_read(r, I2CSENS_REG_CTRL, busok)
      enable0 == IF rd.err = OK THEN FromNat(rd.val) ELSE uninit
      enable == UAnd(enable0, FromNat(CTRL_EN_MASK))
      buf == sprintf_d(IF ~UIsZero(enable) THEN 1 ELSE 0)
  IN  [ret |-> Ret(OK, Len(buf)), buf |-> buf, xfers |-> rd.xfers]

data_convert_DivFirst(t) == UMul(UShr1(t), 1000)

\* temperature *= 1000; temperature >>= 1; on unsigned int
data_convert(t) == UShr1(UMul(t, 1000))

data_show_result(r, busok, uninit) ==
  LET rd == regmap_read(r, I2CSENS_REG_DATA, busok)
      temperature == IF rd.err = OK THEN FromNat(rd.val) ELSE uninit
      buf == sprintf_d(UToInt(data_convert(temperature)))
  IN  [ret |-> Ret(OK, Len(buf)), buf |-> buf, xfers |-> rd.xfers]

enable_store_ret_IgnoreErr(err, count) == Ret(OK, count)

\* if (err < 0) return err; return count;
enable_store_ret(err, count) == IF err # OK THEN Ret(err, 0) ELSE Ret(OK, count)

\* enable_store: the read's err is overwritten unchecked; ctrl is only
\* assigned by a successful read and enable only by a successful conversion
enable_store_read_NoReadBack(r, buf, rdok, uctrl, uenable) ==
  LET rd == regmap_read(r, I2CSENS_REG_CTRL, rdok)
      sc == sscanf_d(buf)
      enable == IF sc.n = 1 THEN sc.val ELSE uenable
  IN  [ctrl |-> IF enable = 0 THEN FromNat(0) ELSE FromNat(CTRL_EN_MASK),
       xfers |-> rd.xfers, conv |-> sc.n]

enable_store_read_Inverted(r, buf, rdok, uctrl, uenable) ==
  LET rd == regmap_read(r, I2CSENS_REG_CTRL, rdok)
      ctrl0 == IF rd.err = OK THEN FromNat(rd.val) ELSE uctrl
      sc == sscanf_d(buf)
      enable == IF sc.n = 1 THEN sc.val ELSE uenable
      ctrl == IF enable # 0
              THEN UAnd(ctrl0, UNot(FromNat(CTRL_EN_MASK)))
              ELSE UOr(ctrl0, FromNat(CTRL_EN_MASK))
  IN  [ctrl |-> ctrl, xfers |-> rd.xfers, conv |-> sc.n]

\* lines 71-79: the CTRL read, the conversion of the text, and the new
\* value of the local ctrl
enable_store_read(r, buf, rdok, uctrl, uenable) ==
  LET rd == regmap_read(r, I2CSENS_REG_CTRL, rdok)
      ctrl0 == IF rd.err = OK THEN FromNat(rd.val) ELSE uctrl
      sc == sscanf_d(buf)
      enable == IF sc.n = 1 THEN sc.val ELSE uenable
      ctrl == IF enable = 0
              THEN UAnd(ctrl0, UNot(FromNat(CTRL_EN_MASK)))
              ELSE UOr(ctrl0, FromNat(CTRL_EN_MASK))
  IN  [ctrl |-> ctrl, xfers |-> rd.xfers, conv |-> sc.n]

\* lines 81-85: the CTRL write and the value returned
enable_store_write(r, ctrl, count, wrok) ==
  LET wr == regmap_write(r, I2CSENS_REG_CTRL, ctrl, wrok)
  IN  [ret |-> enable_store_ret(wr.err, count), regs |-> wr.regs,
       xfers |-> wr.xfers]

enable_store_result(r, buf, rdok, wrok, uctrl, uenable) ==
  LET rd == enable_store_read(r, buf, rdok, uctrl, uenable)
      wr == enable_store_write(r, rd.ctrl, Len(buf), wrok)
  IN  [ret |-> wr.ret, regs |-> wr.regs,
       xfers |-> rd.xfers \o wr.xfers, conv |-> rd.conv]

(* ------------------------------------------------------------------ *)
(* Probe                                                               *)
(* ------------------------------------------------------------------ *)
read_failed_Never(err) == FALSE

\* if (status < 0)
read_failed(err) == err # OK

unexpected_id_LowNibble(regval) == regval % 16 # I2CSENS_ID % 16

\* if (regval != I2CSENS_ID)
unexpected_id(regval) == regval # I2CSENS_ID

sysfs_status_ret_Fatal(created) == IF created THEN Ret(OK, 0) ELSE Ret(ENOMEM, 0)

\* if (status) dev_info(...); return 0;
sysfs_status_ret(created) == Ret(OK, 0)

\* group: whether sysfs_create_group was called, and how it ended
i2csens_probe_result(r, allocok, maperr, busok, created) ==
  IF ~allocok
  THEN [ret |-> Ret(ENOMEM, 0), sysfs |-> FALSE, xfers |-> <<>>,
        group |-> "none"]
  ELSE IF maperr # OK
  THEN [ret |-> Ret(maperr, 0), sysfs |-> FALSE, xfers |-> <<>>,
        group |-> "none"]
  ELSE LET rd == regmap_read(r, I2CSENS_REG_ID, busok)
       IN  IF read_failed(rd.err)
           THEN [ret |-> Ret(rd.err, 0), sysfs |-> FALSE, xfers |-> rd.xfers,
                 group |-> "none"]
           ELSE IF unexpected_id(rd.val)
           THEN [ret |-> Ret(ENODEV, 0), sysfs |-> FALSE, xfers |-> rd.xfers,
                 group |-> "none"]
           ELSE [ret |-> sysfs_status_ret(created), sysfs |-> created,
                 xfers |-> rd.xfers,
                 group |-> IF created THEN "created" ELSE "failed"]

(* ------------------------------------------------------------------ *)
(* Actions                                                             *)
(* ------------------------------------------------------------------ *)
Call(op, arg, out, pre) ==
  [op |-> op, arg |-> arg, addr |-> 0, val |-> 0, ret |-> out.ret,
   buf |-> out.buf, xfers |-> out.xfers, pre |-> pre, conv |-> out.conv,
   bus |-> <<>>, prev |-> NoPrev]

\* what a read keeps of the write-type call it directly follows: whether
\* every bus transaction of that call and the call itself succeeded, the
\* converted text (enable_store) or the value written and CTRL before the
\* write (regmap_write)
AllOk(xfers) == \A i \in DOMAIN xfers : xfers[i].ok

PrevOf(c) ==
  IF c.op = "enable_store"
  THEN [op |-> c.op, ok |-> c.ret.err = OK /\ AllOk(c.xfers),
        conv |-> c.conv, val |-> sscanf_d(c.arg).val, ctrl |-> 0]
  ELSE IF c.op = "regmap_write" /\ c.addr = I2CSENS_REG_CTRL
  THEN [op |-> c.op, ok |-> c.ret.err = OK /\ AllOk(c.xfers),
        conv |-> 0, val |-> c.val, ctrl |-> c.pre[I2CSENS_REG_CTRL]]
  ELSE NoPrev

\* the attribute files exist only while the device is bound and the group
\* was created
attr_visible == state = "Bound" /\ sysfs

\* a local that the call assigns holds the assigned value, whatever the
\* stack held before; only an unassigned local shows its previous content
StackUInt(assigned) == IF assigned THEN {FromNat(0)} ELSE UninitUInt

StackInt(assigned) == IF assigned THEN {0} ELSE UninitInt

i2csens_probe ==
  /\ state = "Unbound"
  /\ \E allocok \in BOOLEAN, maperr \in {OK} \cup RegmapInitErrs,
        busok \in BOOLEAN, created \in BOOLEAN :
       \E out \in {i2csens_probe_result(regs, allocok, maperr, busok, created)} :
         /\ state' = IF out.ret.err = OK THEN "Bound" ELSE "Rejected"
         /\ sysfs' = out.sysfs
         /\ bind' = [done |-> TRUE, ret |-> out.ret, xfers |-> out.xfers,
                      group |-> out.group]
         /\ last' = Call("probe", <<>>,
                         [ret |-> out.ret, buf |-> <<>>,
                          xfers |-> out.xfers, conv |-> 0], regs)
  /\ UNCHANGED <<regs, thr>>

enable_show ==
  /\ attr_visible
  /\ \E busok \in BOOLEAN :
       \E uninit \in StackUInt(busok) :
         \E out \in {enable_show_result(regs, busok, uninit)} :
           last' = [Call("enable_show", <<>>,
                         [ret |-> out.ret, buf |-> out.buf,
                          xfers |-> out.xfers, conv |-> 0], regs)
                      EXCEPT !.prev = PrevOf(last)]
  /\ UNCHANGED <<regs, state, sysfs, bind, thr>>

data_show ==
  /\ attr_visible
  /\ \E busok \in BOOLEAN :
       \E uninit \in StackUInt(busok) :
         \E out \in {data_show_result(regs, busok, uninit)} :
           last' = Call("data_show", <<>>,
                        [ret |-> out.ret, buf |-> out.buf,
                         xfers |-> out.xfers, conv |-> 0], regs)
  /\ UNCHANGED <<regs, state, sysfs, bind, thr>>

enable_store ==
  /\ attr_visible
  /\ \E buf \in StoreInputs, rdok \in BOOLEAN, wrok \in BOOLEAN :
       \E uctrl \in StackUInt(rdok), uenable \in StackInt(sscanf_d(buf).n = 1) :
         \E out \in {enable_store_result(regs, buf, rdok, wrok, uctrl, uenable)} :
           /\ regs' = out.regs
           /\ last' = Call("enable_store", buf,
                           [ret |-> out.ret, buf |-> <<>>,
                            xfers |-> out.xfers, conv |-> out.conv], regs)
  /\ UNCHANGED <<state, sysfs, bind, thr>>

\* the sensor produces a new sample; the record of the last call is dropped
DeviceSample(samples) ==
  /\ \E s \in samples : regs' = [regs EXCEPT ![I2CSENS_REG_DATA] = s]
  /\ regs' # regs
  /\ last' = NoCall
  /\ UNCHANGED <<state, sysfs, bind, thr>>

DeviceSampleSome == DeviceSample(DataSamples)

\* direct use of the register map of a bound device, at any address
regmap_read_op ==
  /\ state = "Bound"
  /\ \E a \in Addresses, busok \in BOOLEAN :
       \E out \in {regmap_read(regs, a, busok)} :
         last' = [NoCall EXCEPT !.op = "regmap_read", !.addr = a,
                                !.ret = Ret(out.err, out.val),
                                !.xfers = out.xfers, !.pre = regs,
                                !.bus = <<busok>>, !.prev = PrevOf(last)]
  /\ UNCHANGED <<regs, state, sysfs, bind, thr>>

regmap_write_op ==
  /\ state = "Bound"
  /\ \E a \in Addresses, v \in WriteSamples, busok \in BOOLEAN :
       \E out \in {regmap_write(regs, a, FromNat(v), busok)} :
         /\ regs' = out.regs
         /\ last' = [NoCall EXCEPT !.op = "regmap_write", !.addr = a,
                                  !.val = v, !.ret = Ret(out.err, 0),
                                  !.xfers = out.xfers, !.pre = regs,
                                  !.bus = <<busok>>]
  /\ UNCHANGED <<state, sysfs, bind, thr>>

\* the callers inside enable_store, each between its read and its write or
\* outside the call; base is CTRL as the device was discovered
IdleCall ==
  [pc |-> "idle", buf |-> <<>>, ctrl |-> FromNat(0), conv |-> 0,
   xfers |-> <<>>, pre |-> <<>>, crossed |-> FALSE]

NoThreads(base) == [base |-> base, calls |-> [t \in Threads |-> IdleCall]]

RegFile(id, ctrl, data) ==
  [a \in Registers |->
     IF a = I2CSENS_REG_ID THEN id
     ELSE IF a = I2CSENS_REG_CTRL THEN ctrl
     ELSE IF a = I2CSENS_REG_DATA THEN data
     ELSE 0]

InitWith(ids, ctrls, datas) ==
  /\ \E id \in ids, ctrl \in ctrls, data \in datas :
       regs = RegFile(id, ctrl, data)
  /\ state = "Unbound"
  /\ sysfs = FALSE
  /\ bind = NoBind
  /\ last = NoCall
  /\ thr = NoThreads(regs[I2CSENS_REG_CTRL])

Init == InitWith(IdSamples, CtrlSamples, DataSamples)

Next ==
  \/ i2csens_probe
  \/ enable_show
  \/ enable_store
  \/ data_show
  \/ DeviceSampleSome

Spec == Init /\ [][Next]_vars

\* concurrent callers of enable_store on a working bus: each call is its
\* CTRL read (store_begin) and, later, its CTRL write (store_end); every
\* bus transaction is atomic, nothing holds the device between the two
Crossed(c) == IF c.pc = "read" THEN [c EXCEPT !.crossed = TRUE] ELSE c

store_begin(t) ==
  /\ attr_visible
  /\ thr.calls[t].pc = "idle"
  /\ \E buf \in ConcInputs :
       \E uenable \in StackInt(sscanf_d(buf).n = 1) :
         \E rd \in {enable_store_read(regs, buf, TRUE, FromNat(0), uenable)} :
           thr' = [thr EXCEPT !.calls =
                     [u \in Threads |->
                        IF u = t
                        THEN [pc |-> "read", buf |-> buf, ctrl |-> rd.ctrl,
                              conv |-> rd.conv, xfers |-> rd.xfers,
                              pre |-> regs, crossed |-> FALSE]
                        ELSE Crossed(thr.calls[u])]]
  /\ UNCHANGED <<regs, state, sysfs, bind, last>>

store_end(t) ==
  /\ thr.calls[t].pc = "read"
  /\ \E c \in {thr.calls[t]} :
       \E wr \in {enable_store_write(regs, c.ctrl, Len(c.buf), TRUE)} :
         /\ regs' = wr.regs
         /\ last' = Call("enable_store", c.buf,
                         [ret |-> wr.ret, buf |-> <<>>,
                          xfers |-> c.xfers \o wr.xfers, conv |-> c.conv],
                         c.pre)
  /\ thr' = [thr EXCEPT !.calls =
              [u \in Threads |->
                 IF u = t THEN IdleCall ELSE Crossed(thr.calls[u])]]
  /\ UNCHANGED <<state, sysfs, bind>>

InitConc == InitWith({I2CSENS_ID}, CtrlSamples, {100})

NextConc ==
  \/ i2csens_probe
  \/ \E t \in Threads : store_begin(t)
  \/ \E t \in Threads : store_end(t)

SpecConc == InitConc /\ [][NextConc]_vars

\* the register map on its own: every address, every value, every bus state
NextRegmap ==
  \/ i2csens_probe
  \/ regmap_read_op
  \/ regmap_write_op

SpecRegmap == Init /\ [][NextRegmap]_vars

\* data_show over every sample the DATA register can hold
InitData == InitWith({I2CSENS_ID}, {0}, Bytes)

NextData ==
  \/ i2csens_probe
  \/ data_show

SpecData == InitData /\ [][NextData]_vars

(* ------------------------------------------------------------------ *)
(* Observations on the recorded calls                                  *)
(* ------------------------------------------------------------------ *)
\* the ID read of the probe, when the probe got that far
BindReadId == bind.done /\ bind.xfers # <<>>

BindIdOk == BindReadId /\ bind.xfers[1].ok

BindIdFailed == BindReadId /\ ~bind.xfers[1].ok

LastReadFailed ==
  \E i \in DOMAIN last.xfers : ~last.xfers[i].wr /\ ~last.xfers[i].ok

LastReadOk ==
  \E i \in DOMAIN last.xfers : ~last.xfers[i].wr /\ last.xfers[i].ok

LastWriteOk ==
  \E i \in DOMAIN last.xfers : last.xfers[i].wr /\ last.xfers[i].ok

LastWriteFailed ==
  \E i \in DOMAIN last.xfers : last.xfers[i].wr /\ ~last.xfers[i].ok

Bit0(v) == v % 2

UpperBits(v) == v \div 2

(* ------------------------------------------------------------------ *)
(* C1                                                                  *)
(* ------------------------------------------------------------------ *)
\* C1: a probe whose ID read succeeds with a value other than 0x5A returns
\* -ENODEV (UnexpectedIdentity), leaves the device rejected, and the
\* attribute group (enable, data) is not registered then or in any later
\* state.
C1_UnexpectedIdentityRejected ==
  (BindIdOk /\ bind.xfers[1].val # 90)
    => /\ bind.ret.err = ENODEV
       /\ state = "Rejected"
       /\ ~sysfs
       /\ ~attr_visible

C1_Witness ==
  /\ BindIdOk
  /\ bind.xfers[1].val = 91
  /\ state = "Rejected"

(* ------------------------------------------------------------------ *)
(* C2                                                                  *)
(* ------------------------------------------------------------------ *)
\* C2 as amended: a probe whose ID read returns exactly 0x5A returns 0 and
\* leaves the device bound whether or not the attribute group could be
\* created; enable get, enable set and data get are accepted from then on
\* exactly when the group was created.
C2_BoundAndAcceptsWhenRegistered ==
  (BindIdOk /\ bind.xfers[1].val = 90)
    => /\ bind.ret = Ret(OK, 0)
       /\ state = "Bound"
       /\ (ENABLED enable_show) = sysfs
       /\ (ENABLED enable_store) = sysfs
       /\ (ENABLED data_show) = sysfs

C2_Witness ==
  /\ BindIdOk
  /\ bind.xfers[1].val = 90
  /\ state = "Bound"
  /\ sysfs
  /\ last.op = "enable_store"
  /\ last.ret.err = OK

\* C2 as stated: after a probe that read ID = 0x5A the device is bound and
\* accepts enable get, enable set and data get in every outcome of the
\* registration of the attribute group.
C2_Original ==
  (BindIdOk /\ bind.xfers[1].val = 90)
    => /\ bind.ret = Ret(OK, 0)
       /\ state = "Bound"
       /\ ENABLED enable_show
       /\ ENABLED enable_store
       /\ ENABLED data_show

(* ------------------------------------------------------------------ *)
(* C3                                                                  *)
(* ------------------------------------------------------------------ *)
\* C3: when the bus transaction of the register read fails, enable get and
\* data get return a failure and write no property value into the buffer.
C3_FailedReadFailsGet ==
  (last.op \in {"enable_show", "data_show"} /\ LastReadFailed)
    => /\ last.ret.err # OK
       /\ last.buf = <<>>

(* ------------------------------------------------------------------ *)
(* C4                                                                  *)
(* ------------------------------------------------------------------ *)
\* C4: when the CTRL read that starts an enable set fails, the set returns
\* the bus error and does not report success, whatever the input and
\* whatever the outcome of the write.
C4_FailedReadFailsSet ==
  (last.op = "enable_store" /\ LastReadFailed)
    => last.ret.err = BusError

(* ------------------------------------------------------------------ *)
(* C5                                                                  *)
(* ------------------------------------------------------------------ *)
\* C5: after an enable set that reports success on an input that parses to
\* an integer, CTRL bit 0 is 1 when the integer is non-zero and 0 when it
\* is zero, and CTRL bits 1..7 are those CTRL held just before the set.
C5_SetWritesBit0KeepsRest ==
  (last.op = "enable_store" /\ last.ret.err = OK /\ last.conv = 1)
    => /\ Bit0(regs[I2CSENS_REG_CTRL])
            = (IF sscanf_d(last.arg).val # 0 THEN 1 ELSE 0)
       /\ UpperBits(regs[I2CSENS_REG_CTRL])
            = UpperBits(last.pre[I2CSENS_REG_CTRL])

(* ------------------------------------------------------------------ *)
(* C6                                                                  *)
(* ------------------------------------------------------------------ *)
\* C6: when the CTRL write of an enable set fails (bus error, or the map
\* refusing the write), the set returns that error and does not report
\* success.
C6_FailedWriteFailsSet ==
  (last.op = "enable_store" /\ ~LastWriteOk)
    => /\ last.ret.err \in {BusError, NotWritable}
       /\ (LastWriteFailed => last.ret.err = BusError)
       /\ last.ret.err # OK

C6_Witness ==
  /\ last.op = "enable_store"
  /\ LastReadOk
  /\ LastWriteFailed
  /\ last.ret.err = BusError

(* ------------------------------------------------------------------ *)
(* C7                                                                  *)
(* ------------------------------------------------------------------ *)
\* C7: for every sample s in 0..255 whose read succeeds, data get succeeds
\* and prints exactly s * 500 followed by a newline: the text reads back
\* as the integer s * 500 and is the returned length long.
C7_DataIsSampleTimes500 ==
  (last.op = "data_show" /\ LastReadOk)
    => /\ last.ret = Ret(OK, Len(last.buf))
       /\ sscanf_d(last.buf) = [n |-> 1, val |-> last.pre[I2CSENS_REG_DATA] * 500]
       /\ last.buf = Digits(last.pre[I2CSENS_REG_DATA] * 500) \o <<"\n">>

C7_Witness ==
  /\ last.op = "data_show"
  /\ LastReadOk
  /\ last.pre[I2CSENS_REG_DATA] = 255
  /\ last.buf = <<"1", "2", "7", "5", "0", "0", "\n">>

(* ------------------------------------------------------------------ *)
(* C8                                                                  *)
(* ------------------------------------------------------------------ *)
\* C8: a register map write to ID (0) or DATA (2) fails with NotWritable
\* for every value, with the bus working or failing, without a bus
\* transaction and without changing a register; of the three registers
\* only CTRL (1) is writable.
C8_OnlyCtrlWritable ==
  /\ (last.op = "regmap_write" /\ last.addr \in {0, 2})
       => /\ last.ret.err = NotWritable
          /\ last.xfers = <<>>
          /\ regs = last.pre
  /\ \A a \in 0 .. 2 : i2csens_regmap_is_writeable(a) <=> a = 1

C8_Witness ==
  /\ last.op = "regmap_write"
  /\ last.addr = 2
  /\ last.bus = <<TRUE>>
  /\ last.val = 255
  /\ last.ret.err = NotWritable

(* ------------------------------------------------------------------ *)
(* C9                                                                  *)
(* ------------------------------------------------------------------ *)
\* C9: for every address a >= 3, register map read(a) and write(a, v) fail
\* with OutOfRange, which is neither NotWritable nor BusError, for every
\* value v and every bus state, without a bus transaction.
C9_OutOfRangeAddresses ==
  (last.op \in {"regmap_read", "regmap_write"} /\ last.addr >= 3)
    => /\ last.ret.err = OutOfRange
       /\ last.ret.err \notin {NotWritable, BusError, OK}
       /\ last.xfers = <<>>
       /\ regs = last.pre

C9_Witness ==
  /\ last.op = "regmap_write"
  /\ last.addr = 3
  /\ last.bus = <<TRUE>>
  /\ last.ret.err = OutOfRange

(* ------------------------------------------------------------------ *)
(* C10                                                                 *)
(* ------------------------------------------------------------------ *)
\* C10: when the bus transaction of the probe's ID read fails, the probe
\* returns that bus error, the device is rejected, and the attribute group
\* is not registered then or in any later state.
C10_BusErrorRejects ==
  BindIdFailed
    => /\ bind.ret.err = BusError
       /\ state = "Rejected"
       /\ ~sysfs
       /\ ~attr_visible

C10_Witness ==
  /\ BindIdFailed
  /\ bind.ret.err = BusError
  /\ state = "Rejected"

(* ------------------------------------------------------------------ *)
(* C11                                                                 *)
(* ------------------------------------------------------------------ *)
\* C11: when the identity was validated and sysfs_create_group failed, the
\* probe still returns 0 and the device is and stays bound; it is the only
\* error the probe swallows: a probe that returned 0 had allocated, had its
\* register map, and had read ID = 0x5A.
C11_RegistrationFailureSwallowed ==
  /\ bind.group = "failed"
       => /\ BindIdOk
          /\ bind.ret = Ret(OK, 0)
          /\ state = "Bound"
          /\ ~sysfs
  /\ (bind.done /\ bind.ret.err = OK)
       => /\ BindIdOk
          /\ bind.xfers[1].val = 90
          /\ bind.group \in {"created", "failed"}

C11_Witness ==
  /\ bind.group = "failed"
  /\ bind.ret = Ret(OK, 0)
  /\ state = "Bound"
  /\ ~sysfs

(* ------------------------------------------------------------------ *)
(* C12                                                                 *)
(* ------------------------------------------------------------------ *)
RegisteredOnlyWhenBound ==
  /\ sysfs => state = "Bound"
  /\ state = "Bound" <=> (BindIdOk /\ bind.xfers[1].val = 90)
  /\ last.op \in {"enable_show", "enable_store", "data_show"}
       => state = "Bound" /\ sysfs

BindingIsFinal ==
  /\ state = "Rejected" => state' = "Rejected"
  /\ state = "Bound" => state' = "Bound"

\* C12: in every reachable state the attribute group is registered, and a
\* property call has happened, only if the device is bound, which it is
\* exactly when its ID read succeeded with 0x5A; no step takes a rejected
\* device to another state, and no step of the driver takes a bound device
\* out of Bound.
C12_UsableOnlyWhenBound == []RegisteredOnlyWhenBound /\ [][BindingIsFinal]_vars

C12_Witness ==
  /\ state = "Bound"
  /\ sysfs
  /\ last.op = "data_show"
  /\ LastReadOk

(* ------------------------------------------------------------------ *)
(* C13                                                                 *)
(* ------------------------------------------------------------------ *)
\* C13: with the bus working, an enable get that directly follows a
\* successful enable set of a text that parses to v returns "1" when v is
\* non-zero and "0" when v is zero, and CTRL is its content before the
\* set with bit 0 replaced (0x00 -> set "1" -> 0x01 -> get "1").
C13_GetAfterSet ==
  (/\ last.op = "enable_show"
   /\ LastReadOk
   /\ last.prev.op = "enable_store"
   /\ last.prev.ok
   /\ last.prev.conv = 1)
    => /\ last.buf = <<(IF last.prev.val # 0 THEN "1" ELSE "0"), "\n">>
       /\ last.ret = Ret(OK, 2)
       /\ Bit0(regs[1]) = (IF last.prev.val # 0 THEN 1 ELSE 0)

C13_Witness ==
  /\ last.op = "enable_show"
  /\ LastReadOk
  /\ last.prev.op = "enable_store"
  /\ last.prev.ok
  /\ last.prev.val = 1
  /\ regs[1] = 1
  /\ last.buf = <<"1", "\n">>

(* ------------------------------------------------------------------ *)
(* C14                                                                 *)
(* ------------------------------------------------------------------ *)
WriteThenReadCtrl ==
  /\ last.op = "regmap_read"
  /\ last.addr = 1
  /\ last.ret.err = OK
  /\ last.prev.op = "regmap_write"
  /\ last.prev.ok

C15_SetIsCriticalSection ==
  \A t \in Threads : ~thr.calls[t].crossed

(* ------------------------------------------------------------------ *)
(* C16                                                                 *)
(* ------------------------------------------------------------------ *)
\* C16: every enable get, data get and probe that reaches its read issues
\* exactly one bus read, of its own register, and a successful one returns
\* what that register holds at the call (also after CTRL or DATA changed)
\* and nothing kept from an earlier call.
C16_FreshReads ==
  /\ last.op = "enable_show"
       => /\ Len(last.xfers) = 1
          /\ last.xfers[1].reg = 1 /\ ~last.xfers[1].wr
          /\ last.xfers[1].ok
               => /\ last.xfers[1].val = last.pre[1]
                  /\ last.buf = <<DigitChars[Bit0(last.pre[1]) + 1], "\n">>
  /\ last.op = "data_show"
       => /\ Len(last.xfers) = 1
          /\ last.xfers[1].reg = 2 /\ ~last.xfers[1].wr
          /\ last.xfers[1].ok
               => /\ last.xfers[1].val = last.pre[2]
                  /\ last.buf = Digits(last.pre[2] * 500) \o <<"\n">>
  /\ (last.op = "probe" /\ last.xfers # <<>>)
       => /\ Len(last.xfers) = 1
          /\ last.xfers[1].reg = 0 /\ ~last.xfers[1].wr
          /\ last.xfers[1].ok
               => /\ last.xfers[1].val = last.pre[0]
                  /\ (last.ret.err = OK) = (last.pre[0] = 90)

C16_Witness ==
  /\ last.op = "enable_show"
  /\ LastReadOk
  /\ last.prev.op = "enable_store"
  /\ last.pre[1] = 255
  /\ last.buf = <<"1", "\n">>

(* ------------------------------------------------------------------ *)
(* C17                                                                 *)
(* ------------------------------------------------------------------ *)
\* C17: the only bus write of the driver is enable set's write to CTRL (1):
\* probe, enable get and data get leave every register as it was, and
\* enable set leaves ID (0) and DATA (2) as they were.
C17_OnlyCtrlIsWritten ==
  /\ \A i \in DOMAIN last.xfers :
       last.xfers[i].wr => last.xfers[i].reg = 1 /\ last.op = "enable_store"
  /\ last.op \in {"probe", "enable_show", "data_show"} => regs = last.pre
  /\ last.op = "enable_store"
       => /\ regs[0] = last.pre[0]
          /\ regs[2] = last.pre[2]
          /\ \A i \in DOMAIN last.xfers : last.xfers[i].reg = 1
  /\ BindIdOk => regs[0] = bind.xfers[1].val

C17_Witness ==
  /\ last.op = "enable_store"
  /\ LastWriteOk
  /\ regs[1] # last.pre[1]
  /\ regs[0] = 90
  /\ regs[2] = last.pre[2]

(* ------------------------------------------------------------------ *)
(* C18                                                                 *)
(* ------------------------------------------------------------------ *)
\* C18: with the bus working and the device leaving CTRL alone, in every
\* interleaving of concurrent enable set calls CTRL bits 1..7 keep their
\* initial values and bit 0 is what the last write wrote: CTRL is the
\* result of running the calls one after the other, the last writer last.
C18_InterleavedSetsSerialize ==
  /\ UpperBits(regs[1]) = UpperBits(thr.base)
  /\ last.op = "enable_store"
       => /\ last.ret.err = OK
          /\ regs[1] = last.xfers[2].val
          /\ last.conv = 1
               => regs[1] = 2 * UpperBits(thr.base)
                            + (IF sscanf_d(last.arg).val # 0 THEN 1 ELSE 0)

C18_Witness ==
  /\ last.op = "enable_store"
  /\ thr.base = 254
  /\ regs[1] = 255
  /\ \E t \in Threads :
       /\ thr.calls[t].pc = "read"
       /\ thr.calls[t].crossed
       /\ thr.calls[t].ctrl = FromNat(254)

(* ------------------------------------------------------------------ *)
(* C19                                                                 *)
(* ------------------------------------------------------------------ *)
\* C19: an enable set whose text does not parse to an integer does not
\* change CTRL, here even with the CTRL read and the CTRL write succeeding.
C19_UnparsedSetKeepsCtrl ==
  (last.op = "enable_store" /\ last.conv = 0 /\ LastReadOk)
    => regs[1] = last.pre[1]

====
